---- MODULE Spec2Model ----
(***************************************************************************)
(* Model of py_api/jet_talk_modbus_api.py: the Modbus-RTU gateway made of  *)
(* the ModbusClient state, the transaction send_modbus_request_raw, the    *)
(* background_worker loop and the Flask handlers get_data / send_data /    *)
(* status, together with start/stop/cleanup of the worker thread.          *)
(***************************************************************************)
EXTENDS Integers, Sequences, FiniteSets, TLC

VARIABLES
    mpc,            \* position of the main thread (__main__)
    running,        \* client.running
    wpc,            \* position of the background_worker thread
    call,           \* arguments of the worker's current send_modbus_request_raw call
    result,         \* value returned by the worker's last send_modbus_request_raw call
    current_addr,   \* background_worker local
    remaining,      \* background_worker local
    lock,           \* holder of client.lock
    inflight,       \* threads inside the body of send_modbus_request_raw
    port,           \* client.port: "none" (None), "open", "closed"
    status,         \* client.status
    error_logs,     \* client.error_logs
    register_cache, \* client.register_cache
    active_ranges,  \* client.active_ranges
    task_queue,     \* client.task_queue
    now,            \* time.time()
    cpc,            \* position of every API request thread
    creq,           \* local variables (address, quantity) of a running get_data
    resp,           \* the response a handler is about to return
    enqueued,       \* history: every task put on task_queue, in put order
    writeLog,       \* history: the write transactions begun, in order
    passMark,       \* history: Len(enqueued) at the worker's last Empty
    polled,         \* history: the addresses inside the read requests issued so far
    join_start,     \* time at which the main thread began worker_thread.join
    nenv,           \* history: number of inputs of the environment so far
    cache_lock,     \* holder of client.cache_lock
    ranges_lock     \* holder of client.ranges_lock

vars == <<mpc, running, wpc, call, result, current_addr, remaining, lock, inflight,
          port, status, error_logs, register_cache, active_ranges, task_queue,
          now, cpc, creq, resp, enqueued, writeLog, passMark, polled,
          join_start, nenv, cache_lock, ranges_lock>>

-----------------------------------------------------------------------------
(* Program constants *)
SLAVE_ADDRESS == 5
MAX_READ_QUANTITY == 47
MAX_ERROR_LOGS == 30
RANGE_TIMEOUT == 10
MAX_QUANTITY == 1000
MAX_VALUE == 65535
READ_SIZE == 256
JOIN_TIMEOUT == 5

(* Bounds of the model *)
MaxTime == 11
MaxEnv == 4

(* Inputs *)
Callers == {"c1"}
ReadInputs == {<<0, 2>>, <<100, 2>>, <<0, 0>>, <<0, 1001>>}
WriteInputs == {<<0, 5>>, <<70000, 1>>, <<1, 65536>>}
\* the instants at which the program is observed to read time.time()
TimePoints == {t \in {0, RANGE_TIMEOUT, RANGE_TIMEOUT + 1} : t <= MaxTime}

Min(a, b) == IF a < b THEN a ELSE b
Max(a, b) == IF a > b THEN a ELSE b

-----------------------------------------------------------------------------
(* ModbusClient helpers *)

\* mutant: a list that keeps every entry
add_error_log_all(logs, message) == logs \o <<message>>

\* deque(maxlen=MAX_ERROR_LOGS).append
add_error_log(logs, message) ==
    IF Len(logs) >= MAX_ERROR_LOGS
    THEN Tail(logs) \o <<message>>
    ELSE logs \o <<message>>

\* mutant: the port counts as open whatever its state
is_connected_always(p) == TRUE

is_connected(p) == p = "open"

\* self.active_ranges[(start, end)] = time.time()
update_active_range(ranges, start, end, t) ==
    [k \in DOMAIN ranges \cup {<<start, end>>} |->
        IF k = <<start, end>> THEN t ELSE ranges[k]]

\* mutant: an entry is dropped as soon as its age reaches the timeout
ExpiredKeysEarly(ranges, t) ==
    {k \in DOMAIN ranges : t - ranges[k] >= RANGE_TIMEOUT}

\* the to_remove loop of get_polling_range
ExpiredKeys(ranges, t) ==
    {k \in DOMAIN ranges : t - ranges[k] > RANGE_TIMEOUT}

\* mutant: the query also refreshes the entries it keeps
RangesRefreshed(ranges, t) ==
    [k \in DOMAIN ranges \ ExpiredKeys(ranges, t) |-> t]

RangesAfterPurge(ranges, t) ==
    [k \in DOMAIN ranges \ ExpiredKeys(ranges, t) |-> ranges[k]]

RECURSIVE MinOver(_)
MinOver(S) ==
    LET x == CHOOSE y \in S : TRUE
    IN IF S = {x} THEN x ELSE Min(x, MinOver(S \ {x}))

RECURSIVE MaxOver(_)
MaxOver(S) ==
    LET x == CHOOSE y \in S : TRUE
    IN IF S = {x} THEN x ELSE Max(x, MaxOver(S \ {x}))

NoRange == <<>>

\* mutant: the range of the entry with the least start instead of the span
get_polling_range_first(ranges) ==
    IF DOMAIN ranges = {}
    THEN NoRange
    ELSE CHOOSE k \in DOMAIN ranges : \A o \in DOMAIN ranges : k[1] <= o[1]

\* return value of get_polling_range, computed on the purged dictionary
get_polling_range(ranges) ==
    IF DOMAIN ranges = {}
    THEN NoRange
    ELSE <<MinOver({k[1] : k \in DOMAIN ranges}), MaxOver({k[2] : k \in DOMAIN ranges})>>

\* self.register_cache.get(addr, 0)
CacheGet(cache, addr) == IF addr \in DOMAIN cache THEN cache[addr] ELSE 0

\* mutant: the index counted from 1
get_cached_registers_off(cache, start, quantity) ==
    [i \in 1..quantity |-> CacheGet(cache, start + i)]

get_cached_registers(cache, start, quantity) ==
    [i \in 1..quantity |-> CacheGet(cache, start + i - 1)]

\* mutant: the values stored one address too high
update_cache_shift(cache, start, registers) ==
    [a \in DOMAIN cache \cup {start + i : i \in 1..Len(registers)} |->
        IF a > start /\ a <= start + Len(registers)
        THEN registers[a - start]
        ELSE cache[a]]

update_cache(cache, start, registers) ==
    [a \in DOMAIN cache \cup {start + i - 1 : i \in 1..Len(registers)} |->
        IF a >= start /\ a < start + Len(registers)
        THEN registers[a - start + 1]
        ELSE cache[a]]

-----------------------------------------------------------------------------
(* Frames *)

\* struct.pack('>BHH', ...) raises struct.error outside 0..65535
Packable(register_address, x) ==
    /\ register_address >= 0 /\ register_address <= 65535
    /\ x >= 0 /\ x <= 65535

\* the slave's register a at time t: the high byte moves with time
SlaveHigh(t) == (t + 1) % 256
SlaveLow(a) == a % 256

\* a read response of the slave carrying n registers from address start on
ReadFrame(start, n, t) ==
    <<SLAVE_ADDRESS, 3, (2 * n) % 256>> \o
    [i \in 1..(2 * n) |->
        IF i % 2 = 1 THEN SlaveHigh(t) ELSE SlaveLow(start + (i \div 2) - 1)]

\* the echo of a write single register request
WriteFrame(address, value) ==
    <<SLAVE_ADDRESS, 6, (address \div 256) % 256, address % 256,
      (value \div 256) % 256, value % 256>>

ExceptionFrame(fc) == <<SLAVE_ADDRESS, 128 + fc, 2>>

\* what client.port.read(256) can return for the request in flight
Responses(c, t) ==
    LET all ==
        IF c.op = "READ"
        THEN {ReadFrame(c.address, c.arg, t),
              ReadFrame(c.address, c.arg + 1, t),
              ReadFrame(c.address, 1, t) \o <<9>>,
              <<>>, ExceptionFrame(3)}
        ELSE {WriteFrame(c.address, c.arg), <<>>, ExceptionFrame(6),
              <<SLAVE_ADDRESS, 6, 0>>}
    IN {r \in all : Len(r) <= READ_SIZE}

Registers(data) ==
    [i \in 1..(Len(data) \div 2) |-> data[2 * i - 1] * 256 + data[2 * i]]

ErrorResult(msg) == [status |-> "error", message |-> msg, registers |-> <<>>]

\* parse_modbus_response; status "raise" stands for the IndexError of response[3]
parse_modbus_response(response) ==
    IF Len(response) < 3
    THEN ErrorResult("Response too short")
    ELSE IF (response[2] \div 128) % 2 = 1
    THEN ErrorResult("None")
    ELSE IF response[2] = 3
    THEN LET byte_count == response[3]
             data == SubSeq(response, 4, Min(3 + byte_count, Len(response)))
         IN [status |-> "success", message |-> "None", registers |-> Registers(data)]
    ELSE IF response[2] = 6
    THEN IF Len(response) < 4
         THEN [status |-> "raise", message |-> "index out of range", registers |-> <<>>]
         ELSE [status |-> "success", message |-> "None",
               registers |-> <<response[3] * 256 + response[4]>>]
    ELSE [status |-> "success", message |-> "None", registers |-> <<>>]

-----------------------------------------------------------------------------
NoCall == [op |-> "NONE", id |-> 0, address |-> 0, arg |-> 0]
NoResult == [status |-> "none", message |-> "None", registers |-> <<>>]
NoResp == [code |-> 0, registers |-> <<>>]
NoReq == <<0, 0>>
EmptyMap == [k \in {} |-> 0]

Init ==
    /\ mpc = "init"
    /\ running = FALSE
    /\ wpc = "unborn"
    /\ call = NoCall
    /\ result = NoResult
    /\ current_addr = 0
    /\ remaining = 0
    /\ lock = "free"
    /\ inflight = {}
    /\ port = "none"
    /\ status = "offline"
    /\ error_logs = <<>>
    /\ register_cache = EmptyMap
    /\ active_ranges = EmptyMap
    /\ task_queue = <<>>
    /\ now = 0
    /\ cpc = [c \in Callers |-> "idle"]
    /\ creq = [c \in Callers |-> NoReq]
    /\ resp = [c \in Callers |-> NoResp]
    /\ enqueued = <<>>
    /\ writeLog = <<>>
    /\ passMark = 0
    /\ polled = {}
    /\ join_start = 0
    /\ nenv = 0
    /\ cache_lock = "free"
    /\ ranges_lock = "free"

-----------------------------------------------------------------------------
mainVars == <<mpc, running, join_start>>
workerVars == <<wpc, call, result, current_addr, remaining>>
linkVars == <<lock, inflight, port, status>>
apiVars == <<cpc, creq, resp>>
histVars == <<enqueued, writeLog, passMark, polled>>
\* the locks of the ModbusClient methods; a method that is modelled as one step
\* takes and releases its lock within the step
guardVars == <<cache_lock, ranges_lock>>

\* one more input of the environment: a request, a fault of the link, a tick
\* of the clock, the stop
EnvInput == nenv < MaxEnv /\ nenv' = nenv + 1

-----------------------------------------------------------------------------
(* Main thread: start_background_worker, stop_background_worker, cleanup *)

start_background_worker ==
    /\ mpc = "init"
    /\ running' = TRUE
    /\ wpc' = "loop"
    /\ mpc' = "serving"
    /\ UNCHANGED <<guardVars, join_start, call, result, current_addr, remaining, linkVars,
                   error_logs, register_cache, active_ranges, task_queue, now,
                   apiVars, histVars, nenv>>

stop_background_worker ==
    /\ mpc = "serving"
    /\ EnvInput
    /\ running' = FALSE
    /\ join_start' = now
    /\ mpc' = "joining"
    /\ UNCHANGED <<guardVars, workerVars, linkVars, error_logs, register_cache, active_ranges,
                   task_queue, now, apiVars, histVars>>

\* worker_thread.join(timeout=5) returns: the thread ended, or the timeout passed
JoinReturns(w, t, t0) == w = "stopped" \/ t - t0 >= JOIN_TIMEOUT

join_worker ==
    /\ mpc = "joining"
    /\ JoinReturns(wpc, now, join_start)
    /\ mpc' = "cleanup"
    /\ UNCHANGED <<guardVars, running, join_start, workerVars, linkVars, error_logs,
                   register_cache, active_ranges, task_queue, now, apiVars,
                   histVars, nenv>>

\* close_port
close_port(p) == IF p = "open" THEN "closed" ELSE p

cleanup ==
    /\ mpc = "cleanup"
    /\ port' = close_port(port)
    /\ mpc' = "done"
    /\ UNCHANGED <<guardVars, running, join_start, workerVars, lock, inflight, status, error_logs,
                   register_cache, active_ranges, task_queue, now, apiVars,
                   histVars, nenv>>

-----------------------------------------------------------------------------
(* background_worker *)

\* mutant: the newest task is taken first
QueueGetLast(q) == [task |-> q[Len(q)], rest |-> SubSeq(q, 1, Len(q) - 1)]

\* mutant: the task is read but stays in the queue
QueueGetKeep(q) == [task |-> Head(q), rest |-> q]

\* Queue.get: the task taken and the queue left
QueueGet(q) == [task |-> Head(q), rest |-> Tail(q)]

\* mutant: Empty is raised although one task waits
QueueEmptyUpToOne(q) == Len(q) <= 1

\* Queue.get(timeout=0.1) raises Empty
QueueEmpty(q) == q = <<>>

\* mutant: the whole of what is left of the window in one request
ReadCallWhole(addr, rem) ==
    [op |-> "READ", id |-> 0, address |-> addr, arg |-> rem]

WriteCall(task) ==
    [op |-> "WRITE", id |-> task.id, address |-> task.address, arg |-> task.value]

ReadCall(addr, rem) ==
    [op |-> "READ", id |-> 0, address |-> addr, arg |-> Min(rem, MAX_READ_QUANTITY)]

\* mutant: the flag is not looked at and the loop goes on
WorkerIgnoresFlag ==
    /\ wpc = "loop"
    /\ ~running
    /\ wpc' = "poll_range"
    /\ UNCHANGED <<guardVars, mainVars, call, result, current_addr, remaining, linkVars, error_logs,
                   register_cache, active_ranges, task_queue, now, apiVars,
                   histVars, nenv>>

\* while client.running: false
WorkerExit ==
    /\ wpc = "loop"
    /\ ~running
    /\ wpc' = "stopped"
    /\ UNCHANGED <<guardVars, mainVars, call, result, current_addr, remaining, linkVars, error_logs,
                   register_cache, active_ranges, task_queue, now, apiVars,
                   histVars, nenv>>

\* task = client.task_queue.get(timeout=0.1)
WorkerDequeue ==
    /\ wpc = "loop"
    /\ running
    /\ ~QueueEmpty(task_queue)
    /\ LET g == QueueGet(task_queue)
       IN /\ task_queue' = g.rest
          /\ call' = WriteCall(g.task)
    /\ wpc' = "txn_begin"
    /\ UNCHANGED <<guardVars, mainVars, result, current_addr, remaining, linkVars, error_logs,
                   register_cache, active_ranges, now, apiVars, histVars, nenv>>

\* except Empty
WorkerEmpty ==
    /\ wpc = "loop"
    /\ running
    /\ QueueEmpty(task_queue)
    /\ wpc' = "poll_range"
    /\ passMark' = Len(enqueued)
    /\ UNCHANGED <<guardVars, mainVars, call, result, current_addr, remaining, linkVars, error_logs,
                   register_cache, active_ranges, task_queue, now, apiVars,
                   enqueued, writeLog, polled, nenv>>

\* polling_range = client.get_polling_range() is None: time.sleep(0.5)
WorkerPollNone ==
    /\ wpc = "poll_range"
    /\ active_ranges' = RangesAfterPurge(active_ranges, now)
    /\ get_polling_range(active_ranges') = NoRange
    /\ wpc' = "loop"
    /\ UNCHANGED <<guardVars, mainVars, call, result, current_addr, remaining, linkVars, error_logs,
                   register_cache, task_queue, now, apiVars, histVars, nenv>>

\* polling_range = client.get_polling_range(): the first chunk of the pass
WorkerPollStart ==
    /\ wpc = "poll_range"
    /\ active_ranges' = RangesAfterPurge(active_ranges, now)
    /\ LET polling_range == get_polling_range(active_ranges')
       IN /\ polling_range # NoRange
          /\ current_addr' = polling_range[1]
          /\ remaining' = polling_range[2] - polling_range[1] + 1
          /\ call' = ReadCall(polling_range[1], polling_range[2] - polling_range[1] + 1)
    /\ wpc' = "txn_begin"
    /\ UNCHANGED <<guardVars, mainVars, result, linkVars, error_logs, register_cache, task_queue,
                   now, apiVars, histVars, nenv>>

-----------------------------------------------------------------------------
(* send_modbus_request_raw, called by the worker *)

\* the tasks of send_data_again carry id 0 and leave no history
LogWrite(log, c) ==
    IF c.op = "WRITE" /\ c.id # 0
    THEN log \o <<[id |-> c.id, address |-> c.address, value |-> c.arg]>>
    ELSE log

LogRead(set, c) ==
    IF c.op = "READ"
    THEN set \cup {a \in c.address..(c.address + c.arg - 1) : TRUE}
    ELSE set

\* with client.lock
LockFree(l) == l = "free"

\* with client.lock: entered with the port open
TxnBeginConnected ==
    /\ wpc = "txn_begin"
    /\ LockFree(lock)
    /\ is_connected(port)
    /\ lock' = "worker"
    /\ inflight' = inflight \cup {"worker"}
    /\ wpc' = "txn_write"
    /\ writeLog' = LogWrite(writeLog, call)
    /\ polled' = LogRead(polled, call)
    /\ UNCHANGED <<guardVars, mainVars, call, result, current_addr, remaining, port, status,
                   error_logs, register_cache, active_ranges, task_queue, now, apiVars,
                   enqueued, passMark, nenv>>

\* with client.lock: open_port succeeds
TxnBeginOpen ==
    /\ wpc = "txn_begin"
    /\ LockFree(lock)
    /\ ~is_connected(port)
    /\ lock' = "worker"
    /\ inflight' = inflight \cup {"worker"}
    /\ port' = "open"
    /\ status' = "online"
    /\ wpc' = "txn_write"
    /\ writeLog' = LogWrite(writeLog, call)
    /\ polled' = LogRead(polled, call)
    /\ UNCHANGED <<guardVars, mainVars, call, result, current_addr, remaining,
                   error_logs, register_cache, active_ranges, task_queue, now, apiVars,
                   enqueued, passMark, nenv>>

\* with client.lock: open_port fails and the call returns at once
TxnBeginOpenFail ==
    /\ wpc = "txn_begin"
    /\ LockFree(lock)
    /\ ~is_connected(port)
    /\ EnvInput
    /\ status' = "mb-offline"
    /\ error_logs' = add_error_log(error_logs, "Failed to open port")
    /\ result' = ErrorResult("Cannot open serial port")
    /\ wpc' = "txn_ret"
    /\ writeLog' = LogWrite(writeLog, call)
    /\ polled' = LogRead(polled, call)
    /\ UNCHANGED <<guardVars, mainVars, call, current_addr, remaining, lock, inflight, port,
                   register_cache, active_ranges, task_queue, now, apiVars,
                   enqueued, passMark>>

\* mutant: the except clauses leave client.status as it was
TxnFailQuiet(kind, closes) ==
    /\ status' = status
    /\ error_logs' = add_error_log(error_logs, kind)
    /\ port' = IF closes THEN close_port(port) ELSE port
    /\ result' = ErrorResult(kind)
    /\ lock' = "free"
    /\ inflight' = inflight \ {"worker"}
    /\ wpc' = "txn_ret"

\* mutant: the except clauses return without releasing client.lock
TxnFailKeepsLock(kind, closes) ==
    /\ status' = "mb-offline"
    /\ error_logs' = add_error_log(error_logs, kind)
    /\ port' = IF closes THEN close_port(port) ELSE port
    /\ result' = ErrorResult(kind)
    /\ lock' = lock
    /\ inflight' = inflight \ {"worker"}
    /\ wpc' = "txn_ret"

\* mutant: no except clause closes the port
TxnFailKeepsPort(kind, closes) ==
    /\ status' = "mb-offline"
    /\ error_logs' = add_error_log(error_logs, kind)
    /\ port' = port
    /\ result' = ErrorResult(kind)
    /\ lock' = "free"
    /\ inflight' = inflight \ {"worker"}
    /\ wpc' = "txn_ret"

\* mutant: the exception is not caught and ends the thread
TxnFailFatal(kind, closes) ==
    /\ status' = "mb-offline"
    /\ error_logs' = add_error_log(error_logs, kind)
    /\ port' = IF closes THEN close_port(port) ELSE port
    /\ result' = ErrorResult(kind)
    /\ lock' = "free"
    /\ inflight' = inflight \ {"worker"}
    /\ wpc' = "stopped"

\* the two except clauses of send_modbus_request_raw; both release client.lock
TxnFail(kind, closes) ==
    /\ status' = "mb-offline"
    /\ error_logs' = add_error_log(error_logs, kind)
    /\ port' = IF closes THEN close_port(port) ELSE port
    /\ result' = ErrorResult(kind)
    /\ lock' = "free"
    /\ inflight' = inflight \ {"worker"}
    /\ wpc' = "txn_ret"

\* struct.pack raises struct.error: except Exception
TxnPackError ==
    /\ wpc = "txn_write"
    /\ ~Packable(call.address, call.arg)
    /\ TxnFail("Unexpected error", FALSE)
    /\ UNCHANGED <<guardVars, mainVars, call, current_addr, remaining, register_cache,
                   active_ranges, task_queue, now, apiVars, histVars, nenv>>

\* client.port.write(request_data) succeeds
TxnWriteOk ==
    /\ wpc = "txn_write"
    /\ Packable(call.address, call.arg)
    /\ port = "open"
    /\ wpc' = "txn_read"
    /\ UNCHANGED <<guardVars, mainVars, call, result, current_addr, remaining, linkVars, error_logs,
                   register_cache, active_ranges, task_queue, now, apiVars,
                   histVars, nenv>>

\* client.port.write raises SerialException: an I/O error of the open port
TxnWriteSerialError ==
    /\ wpc = "txn_write"
    /\ Packable(call.address, call.arg)
    /\ port = "open"
    /\ EnvInput
    /\ TxnFail("Serial exception", TRUE)
    /\ UNCHANGED <<guardVars, mainVars, call, current_addr, remaining, register_cache,
                   active_ranges, task_queue, now, apiVars, histVars>>

\* client.port.write or client.port.read raises PortNotOpenError, a
\* SerialException: close_port closed the port meanwhile
TxnPortClosed ==
    /\ wpc \in {"txn_write", "txn_read"}
    /\ wpc = "txn_write" => Packable(call.address, call.arg)
    /\ port # "open"
    /\ TxnFail("Serial exception", TRUE)
    /\ UNCHANGED <<guardVars, mainVars, call, current_addr, remaining, register_cache,
                   active_ranges, task_queue, now, apiVars, histVars, nenv>>

\* the frame is the one the request asks for
Expected(c, t, response) ==
    \/ c.op = "READ" /\ response = ReadFrame(c.address, c.arg, t)
    \/ c.op = "WRITE" /\ response = WriteFrame(c.address, c.arg)

\* client.port.read(256) returns; parse_modbus_response; status update
TxnReadResponse ==
    /\ wpc = "txn_read"
    /\ port = "open"
    /\ \E response \in Responses(call, now) :
        /\ IF Expected(call, now, response) THEN nenv' = nenv ELSE EnvInput
        /\ LET parsed == parse_modbus_response(response)
           IN IF parsed.status = "raise"
              THEN TxnFail("Unexpected error", FALSE)
              ELSE /\ result' = parsed
                   /\ status' = IF parsed.status = "success" THEN "online" ELSE "mb-offline"
                   /\ error_logs' = IF parsed.status = "success"
                                    THEN error_logs
                                    ELSE add_error_log(error_logs, "Modbus error response")
                   /\ lock' = "free"
                   /\ inflight' = inflight \ {"worker"}
                   /\ wpc' = "txn_ret"
                   /\ port' = port
    /\ UNCHANGED <<guardVars, mainVars, call, current_addr, remaining, register_cache,
                   active_ranges, task_queue, now, apiVars, histVars>>

\* client.port.read raises SerialException: an I/O error of the open port
TxnReadSerialError ==
    /\ wpc = "txn_read"
    /\ port = "open"
    /\ EnvInput
    /\ TxnFail("Serial exception", TRUE)
    /\ UNCHANGED <<guardVars, mainVars, call, current_addr, remaining, register_cache,
                   active_ranges, task_queue, now, apiVars, histVars>>

-----------------------------------------------------------------------------
(* background_worker: after send_modbus_request_raw returned *)

\* mutant: a successful write is copied into the cache
CacheWriteThrough(cache, c, res) ==
    IF res.status = "success" THEN update_cache(cache, c.address, <<c.arg>>) ELSE cache

\* the cache after the write branch handled the result
CacheAfterWrite(cache, c, res) == cache

\* the cache after the polling branch handled the result
CacheAfterPoll(cache, addr, res) ==
    IF res.status = "success" THEN update_cache(cache, addr, res.registers) ELSE cache

\* mutant: the pass is given up after its first chunk
WorkerPollDoneAbort ==
    /\ wpc = "txn_ret"
    /\ call.op = "READ"
    /\ register_cache' = CacheAfterPoll(register_cache, current_addr, result)
    /\ error_logs' = IF result.status = "success"
                     THEN error_logs
                     ELSE add_error_log(error_logs, "Polling failed")
    /\ result' = NoResult
    /\ current_addr' = 0
    /\ remaining' = 0
    /\ call' = NoCall
    /\ wpc' = "loop"
    /\ UNCHANGED <<guardVars, mainVars, linkVars, active_ranges, task_queue, now, apiVars,
                   histVars, nenv>>

WorkerWriteDone ==
    /\ wpc = "txn_ret"
    /\ call.op = "WRITE"
    /\ error_logs' = IF result.status = "success"
                     THEN error_logs
                     ELSE add_error_log(error_logs, "Write failed")
    /\ register_cache' = CacheAfterWrite(register_cache, call, result)
    /\ call' = NoCall
    /\ result' = NoResult
    /\ wpc' = "loop"
    /\ UNCHANGED <<guardVars, mainVars, current_addr, remaining, linkVars, active_ranges,
                   task_queue, now, apiVars, histVars, nenv>>

WorkerPollDone ==
    /\ wpc = "txn_ret"
    /\ call.op = "READ"
    /\ register_cache' = CacheAfterPoll(register_cache, current_addr, result)
    /\ error_logs' = IF result.status = "success"
                     THEN error_logs
                     ELSE add_error_log(error_logs, "Polling failed")
    /\ result' = NoResult
    /\ LET read_qty == call.arg
       IN IF remaining - read_qty > 0
          THEN /\ current_addr' = current_addr + read_qty
               /\ remaining' = remaining - read_qty
               /\ call' = ReadCall(current_addr + read_qty, remaining - read_qty)
               /\ wpc' = "txn_begin"
          ELSE /\ current_addr' = 0
               /\ remaining' = 0
               /\ call' = NoCall
               /\ wpc' = "loop"
    /\ UNCHANGED <<guardVars, mainVars, linkVars, active_ranges, task_queue, now, apiVars,
                   histVars, nenv>>

-----------------------------------------------------------------------------
(* Flask handlers *)

QuantityOk(quantity) == ~(quantity <= 0 \/ quantity > MAX_QUANTITY)
ValueOk(value) == ~(value < 0 \/ value > MAX_VALUE)

\* get_data: validation, then client.update_active_range
get_data_touch(c, address, quantity) ==
    /\ mpc = "serving"
    /\ cpc[c] = "idle"
    /\ EnvInput
    /\ IF QuantityOk(quantity)
       THEN /\ active_ranges' = update_active_range(active_ranges, address,
                                                    address + quantity - 1, now)
            /\ creq' = [creq EXCEPT ![c] = <<address, quantity>>]
            /\ cpc' = [cpc EXCEPT ![c] = "get_data"]
            /\ resp' = resp
       ELSE /\ resp' = [resp EXCEPT ![c] = [code |-> 400, registers |-> <<>>]]
            /\ cpc' = [cpc EXCEPT ![c] = "reply"]
            /\ UNCHANGED <<active_ranges, creq>>
    /\ UNCHANGED <<guardVars, mainVars, workerVars, linkVars, error_logs, register_cache,
                   task_queue, now, histVars>>

\* mutant: the handler reads the registers from the port itself
get_data_read_direct(c) ==
    /\ cpc[c] = "get_data"
    /\ inflight' = inflight \cup {c}
    /\ resp' = [resp EXCEPT ![c] =
                 [code |-> 200,
                  registers |-> get_cached_registers(register_cache, creq[c][1], creq[c][2])]]
    /\ cpc' = [cpc EXCEPT ![c] = "reply"]
    /\ UNCHANGED <<guardVars, mainVars, workerVars, lock, port, status, error_logs, register_cache,
                   active_ranges, task_queue, now, creq, histVars, nenv>>

\* mutant: the handler reads the cache under client.lock
get_data_read_locked(c) ==
    /\ cpc[c] = "get_data"
    /\ LockFree(lock)
    /\ resp' = [resp EXCEPT ![c] =
                 [code |-> 200,
                  registers |-> get_cached_registers(register_cache, creq[c][1], creq[c][2])]]
    /\ cpc' = [cpc EXCEPT ![c] = "reply"]
    /\ UNCHANGED <<guardVars, mainVars, workerVars, linkVars, error_logs, register_cache,
                   active_ranges, task_queue, now, creq, histVars, nenv>>

\* get_data: client.get_cached_registers and the 200 response
get_data_read(c) ==
    /\ cpc[c] = "get_data"
    /\ resp' = [resp EXCEPT ![c] =
                 [code |-> 200,
                  registers |-> get_cached_registers(register_cache, creq[c][1], creq[c][2])]]
    /\ cpc' = [cpc EXCEPT ![c] = "reply"]
    /\ UNCHANGED <<guardVars, mainVars, workerVars, linkVars, error_logs, register_cache,
                   active_ranges, task_queue, now, creq, histVars, nenv>>

\* the get_data handler returns its response
api_return(c) ==
    /\ cpc[c] = "reply"
    /\ cpc' = [cpc EXCEPT ![c] = "idle"]
    /\ creq' = [creq EXCEPT ![c] = NoReq]
    /\ resp' = [resp EXCEPT ![c] = NoResp]
    /\ UNCHANGED <<guardVars, mainVars, workerVars, linkVars, error_logs, register_cache,
                   active_ranges, task_queue, now, histVars, nenv>>

\* send_data: validation, then client.task_queue.put; the handler keeps no state
send_data(address, value) ==
    /\ mpc = "serving"
    /\ EnvInput
    /\ IF ValueOk(value)
       THEN LET task == [id |-> Len(enqueued) + 1, address |-> address, value |-> value]
            IN /\ task_queue' = Append(task_queue, task)
               /\ enqueued' = Append(enqueued, task)
       ELSE UNCHANGED <<task_queue, enqueued>>
    /\ UNCHANGED <<guardVars, mainVars, workerVars, linkVars, error_logs, register_cache,
                   active_ranges, now, apiVars, writeLog, passMark, polled>>

\* status: client.get_polling_range(), then a report of fields read without locks
status_request ==
    /\ mpc = "serving"
    /\ EnvInput
    /\ active_ranges' = RangesAfterPurge(active_ranges, now)
    /\ UNCHANGED <<guardVars, mainVars, workerVars, linkVars, error_logs, register_cache,
                   task_queue, now, apiVars, histVars>>

\* time passes
Tick(t) ==
    /\ t > now
    /\ EnvInput
    /\ now' = t
    /\ UNCHANGED <<guardVars, mainVars, workerVars, linkVars, error_logs, register_cache,
                   active_ranges, task_queue, apiVars, histVars>>

-----------------------------------------------------------------------------
Next ==
    \/ start_background_worker
    \/ stop_background_worker
    \/ join_worker
    \/ cleanup
    \/ WorkerExit
    \/ WorkerDequeue
    \/ WorkerEmpty
    \/ WorkerPollNone
    \/ WorkerPollStart
    \/ TxnBeginConnected
    \/ TxnBeginOpen
    \/ TxnBeginOpenFail
    \/ TxnPackError
    \/ TxnWriteOk
    \/ TxnWriteSerialError
    \/ TxnPortClosed
    \/ TxnReadResponse
    \/ TxnReadSerialError
    \/ WorkerWriteDone
    \/ WorkerPollDone
    \/ \E c \in Callers, r \in ReadInputs : get_data_touch(c, r[1], r[2])
    \/ \E c \in Callers : get_data_read(c)
    \/ \E c \in Callers : api_return(c)
    \/ \E w \in WriteInputs : send_data(w[1], w[2])
    \/ status_request
    \/ \E t \in TimePoints : Tick(t)

Spec == Init /\ [][Next]_vars

-----------------------------------------------------------------------------
(* The register cache on its own: update_cache applied to any start address  *)
(* and any value list within the bounds, from the empty cache on.            *)

MaxAddr == 3
MaxLen == 3
CacheValues == {1, 65535}

SeqsUpTo(S, n) == UNION {[1..m -> S] : m \in 0..n}

CachePut(start, values) ==
    /\ register_cache' = update_cache(register_cache, start, values)
    /\ current_addr' = start
    /\ result' = [status |-> "success", message |-> "None", registers |-> values]
    /\ UNCHANGED <<guardVars, mainVars, wpc, call, remaining, linkVars, error_logs, active_ranges,
                   task_queue, now, apiVars, histVars, nenv>>

NextCache ==
    \E start \in 0..MaxAddr, values \in SeqsUpTo(CacheValues, MaxLen) :
        CachePut(start, values)

SpecCache == Init /\ [][NextCache]_vars

-----------------------------------------------------------------------------
(* The gateway under a fair scheduler and callers that never stop writing: the *)
(* worker thread always gets to run (every blocking call of its loop has a     *)
(* timeout), requests and faults stay within the budget of inputs, and         *)
(* send_data may be called again and again while the queue has room.           *)

MaxQueue == 2
MaxLiveEnv == 3

\* what the callers that never stop write
AgainInputs == {<<0, 5>>}

\* send_data, called without end: same handler, no history kept of its tasks
send_data_again(address, value) ==
    /\ mpc = "serving"
    /\ Len(task_queue) < MaxQueue
    /\ ValueOk(value)
    /\ task_queue' = Append(task_queue, [id |-> 0, address |-> address, value |-> value])
    /\ UNCHANGED <<guardVars, mainVars, workerVars, linkVars, error_logs, register_cache,
                   active_ranges, now, apiVars, histVars, nenv>>

\* the steps of the background_worker thread
WorkerStep ==
    \/ WorkerExit
    \/ WorkerDequeue
    \/ WorkerEmpty
    \/ WorkerPollNone
    \/ WorkerPollStart
    \/ TxnBeginConnected
    \/ TxnBeginOpen
    \/ TxnBeginOpenFail
    \/ TxnPackError
    \/ TxnWriteOk
    \/ TxnWriteSerialError
    \/ TxnPortClosed
    \/ TxnReadResponse
    \/ TxnReadSerialError
    \/ WorkerWriteDone
    \/ WorkerPollDone

\* the steps the worker can take without the link failing: what the scheduler
\* owes the thread
WorkerRuns ==
    \/ WorkerExit
    \/ WorkerDequeue
    \/ WorkerEmpty
    \/ WorkerPollNone
    \/ WorkerPollStart
    \/ TxnBeginConnected
    \/ TxnBeginOpen
    \/ TxnPackError
    \/ TxnWriteOk
    \/ TxnPortClosed
    \/ TxnReadResponse
    \/ WorkerWriteDone
    \/ WorkerPollDone

\* the steps of the main thread and of the callers in this specification
LiveEnvStep ==
    \/ start_background_worker
    \/ stop_background_worker
    \/ join_worker
    \/ cleanup
    \/ \E c \in Callers, r \in ReadInputs : get_data_touch(c, r[1], r[2])
    \/ \E c \in Callers : get_data_read(c)
    \/ \E c \in Callers : api_return(c)
    \/ \E w \in AgainInputs : send_data_again(w[1], w[2])

NextLive == (WorkerStep \/ LiveEnvStep) /\ nenv' <= MaxLiveEnv

SpecLive == Init /\ [][NextLive]_vars /\ WF_vars(WorkerRuns)

-----------------------------------------------------------------------------
(* The gateway with no serial device present: serial.Serial raises at every    *)
(* open_port, so every transaction of the worker fails, pass after pass.       *)

\* send_modbus_request_raw when open_port fails, as often as it is called
TxnBeginOpenFailAgain ==
    /\ wpc = "txn_begin"
    /\ LockFree(lock)
    /\ ~is_connected(port)
    /\ status' = "mb-offline"
    /\ error_logs' = add_error_log(error_logs, "Failed to open port")
    /\ result' = ErrorResult("Cannot open serial port")
    /\ wpc' = "txn_ret"
    /\ writeLog' = LogWrite(writeLog, call)
    /\ polled' = LogRead(polled, call)
    /\ UNCHANGED <<guardVars, mainVars, call, current_addr, remaining, lock, inflight, port,
                   register_cache, active_ranges, task_queue, now, apiVars,
                   enqueued, passMark, nenv>>

DownStep ==
    \/ start_background_worker
    \/ WorkerDequeue
    \/ WorkerEmpty
    \/ WorkerPollNone
    \/ WorkerPollStart
    \/ TxnBeginOpenFailAgain
    \/ WorkerWriteDone
    \/ WorkerPollDone
    \/ \E c \in Callers, r \in ReadInputs : get_data_touch(c, r[1], r[2])
    \/ \E c \in Callers : get_data_read(c)
    \/ \E c \in Callers : api_return(c)
    \/ \E w \in WriteInputs : send_data(w[1], w[2])

NextDown == DownStep /\ nenv' <= MaxLiveEnv

SpecDown == Init /\ [][NextDown]_vars

-----------------------------------------------------------------------------
(* The gateway with the ModbusClient methods split at their locks: a method    *)
(* that runs `with self.ranges_lock` or `with self.cache_lock` takes the lock  *)
(* in one step and does its body and the release in the next, so that a thread *)
(* can be seen waiting for a lock another thread holds.                        *)

\* get_polling_range of the worker: with self.ranges_lock
WorkerRangesAcquire ==
    /\ wpc = "poll_range"
    /\ ranges_lock = "free"
    /\ ranges_lock' = "worker"
    /\ UNCHANGED <<cache_lock, mainVars, workerVars, linkVars, error_logs, register_cache,
                   active_ranges, task_queue, now, apiVars, histVars, nenv>>

\* get_polling_range of the worker returns None
WorkerPollNoneLocked ==
    /\ wpc = "poll_range"
    /\ ranges_lock = "worker"
    /\ active_ranges' = RangesAfterPurge(active_ranges, now)
    /\ get_polling_range(active_ranges') = NoRange
    /\ ranges_lock' = "free"
    /\ wpc' = "loop"
    /\ UNCHANGED <<cache_lock, mainVars, call, result, current_addr, remaining, linkVars,
                   error_logs, register_cache, task_queue, now, apiVars, histVars, nenv>>

\* get_polling_range of the worker returns a window
WorkerPollStartLocked ==
    /\ wpc = "poll_range"
    /\ ranges_lock = "worker"
    /\ active_ranges' = RangesAfterPurge(active_ranges, now)
    /\ LET polling_range == get_polling_range(active_ranges')
       IN /\ polling_range # NoRange
          /\ current_addr' = polling_range[1]
          /\ remaining' = polling_range[2] - polling_range[1] + 1
          /\ call' = ReadCall(polling_range[1], polling_range[2] - polling_range[1] + 1)
    /\ ranges_lock' = "free"
    /\ wpc' = "txn_begin"
    /\ UNCHANGED <<cache_lock, mainVars, result, linkVars, error_logs, register_cache,
                   task_queue, now, apiVars, histVars, nenv>>

\* update_cache of the worker: with self.cache_lock
WorkerCacheAcquire ==
    /\ wpc = "txn_ret"
    /\ call.op = "READ"
    /\ result.status = "success"
    /\ cache_lock = "free"
    /\ cache_lock' = "worker"
    /\ UNCHANGED <<ranges_lock, mainVars, workerVars, linkVars, error_logs, register_cache,
                   active_ranges, task_queue, now, apiVars, histVars, nenv>>

\* the polling branch after send_modbus_request_raw: update_cache under the
\* lock, or the error log entry, then the next chunk
WorkerPollDoneLocked ==
    /\ wpc = "txn_ret"
    /\ call.op = "READ"
    /\ IF result.status = "success"
       THEN /\ cache_lock = "worker"
            /\ cache_lock' = "free"
            /\ register_cache' = update_cache(register_cache, current_addr, result.registers)
            /\ error_logs' = error_logs
       ELSE /\ error_logs' = add_error_log(error_logs, "Polling failed")
            /\ UNCHANGED <<cache_lock, register_cache>>
    /\ result' = NoResult
    /\ LET read_qty == call.arg
       IN IF remaining - read_qty > 0
          THEN /\ current_addr' = current_addr + read_qty
               /\ remaining' = remaining - read_qty
               /\ call' = ReadCall(current_addr + read_qty, remaining - read_qty)
               /\ wpc' = "txn_begin"
          ELSE /\ current_addr' = 0
               /\ remaining' = 0
               /\ call' = NoCall
               /\ wpc' = "loop"
    /\ UNCHANGED <<ranges_lock, mainVars, linkVars, active_ranges, task_queue, now,
                   apiVars, histVars, nenv>>

\* get_data: the request arrives and is validated
get_data_enter(c, address, quantity) ==
    /\ mpc = "serving"
    /\ cpc[c] = "idle"
    /\ EnvInput
    /\ IF QuantityOk(quantity)
       THEN /\ creq' = [creq EXCEPT ![c] = <<address, quantity>>]
            /\ cpc' = [cpc EXCEPT ![c] = "touch"]
            /\ resp' = resp
       ELSE /\ resp' = [resp EXCEPT ![c] = [code |-> 400, registers |-> <<>>]]
            /\ cpc' = [cpc EXCEPT ![c] = "reply"]
            /\ creq' = creq
    /\ UNCHANGED <<guardVars, mainVars, workerVars, linkVars, error_logs, register_cache,
                   active_ranges, task_queue, now, histVars>>

\* status: the request arrives
status_enter(c) ==
    /\ mpc = "serving"
    /\ cpc[c] = "idle"
    /\ EnvInput
    /\ cpc' = [cpc EXCEPT ![c] = "status"]
    /\ UNCHANGED <<guardVars, mainVars, workerVars, linkVars, error_logs, register_cache,
                   active_ranges, task_queue, now, creq, resp, histVars>>

\* update_active_range or get_polling_range of a handler: with self.ranges_lock
CallerRangesAcquire(c) ==
    /\ cpc[c] \in {"touch", "status"}
    /\ ranges_lock = "free"
    /\ ranges_lock' = c
    /\ UNCHANGED <<cache_lock, mainVars, workerVars, linkVars, error_logs, register_cache,
                   active_ranges, task_queue, now, apiVars, histVars, nenv>>

\* get_data: the body of update_active_range
get_data_touch_locked(c) ==
    /\ cpc[c] = "touch"
    /\ ranges_lock = c
    /\ active_ranges' = update_active_range(active_ranges, creq[c][1],
                                            creq[c][1] + creq[c][2] - 1, now)
    /\ ranges_lock' = "free"
    /\ cpc' = [cpc EXCEPT ![c] = "get_data"]
    /\ UNCHANGED <<cache_lock, mainVars, workerVars, linkVars, error_logs, register_cache,
                   task_queue, now, creq, resp, histVars, nenv>>

\* status: the body of get_polling_range, then the report
status_locked(c) ==
    /\ cpc[c] = "status"
    /\ ranges_lock = c
    /\ active_ranges' = RangesAfterPurge(active_ranges, now)
    /\ ranges_lock' = "free"
    /\ cpc' = [cpc EXCEPT ![c] = "idle"]
    /\ UNCHANGED <<cache_lock, mainVars, workerVars, linkVars, error_logs, register_cache,
                   task_queue, now, creq, resp, histVars, nenv>>

\* get_cached_registers of get_data: with self.cache_lock
CallerCacheAcquire(c) ==
    /\ cpc[c] = "get_data"
    /\ cache_lock = "free"
    /\ cache_lock' = c
    /\ UNCHANGED <<ranges_lock, mainVars, workerVars, linkVars, error_logs, register_cache,
                   active_ranges, task_queue, now, apiVars, histVars, nenv>>

\* get_data: the body of get_cached_registers and the 200 response
get_data_read_locked_cache(c) ==
    /\ cpc[c] = "get_data"
    /\ cache_lock = c
    /\ resp' = [resp EXCEPT ![c] =
                 [code |-> 200,
                  registers |-> get_cached_registers(register_cache, creq[c][1], creq[c][2])]]
    /\ cache_lock' = "free"
    /\ cpc' = [cpc EXCEPT ![c] = "reply"]
    /\ UNCHANGED <<ranges_lock, mainVars, workerVars, linkVars, error_logs, register_cache,
                   active_ranges, task_queue, now, creq, histVars, nenv>>

\* the steps of the worker in this specification that need no fault of the link
LockWorkerRuns ==
    \/ WorkerExit
    \/ WorkerDequeue
    \/ WorkerEmpty
    \/ WorkerRangesAcquire
    \/ WorkerPollNoneLocked
    \/ WorkerPollStartLocked
    \/ TxnBeginConnected
    \/ TxnBeginOpen
    \/ TxnPackError
    \/ TxnWriteOk
    \/ TxnPortClosed
    \/ TxnReadResponse
    \/ WorkerWriteDone
    \/ WorkerCacheAcquire
    \/ WorkerPollDoneLocked

\* the faults of the link
LockWorkerFaults ==
    \/ TxnBeginOpenFail
    \/ TxnWriteSerialError
    \/ TxnReadSerialError

\* a handler takes a lock it is waiting for
CallerAcquires == \E c \in Callers : CallerRangesAcquire(c) \/ CallerCacheAcquire(c)

\* a handler goes on with the lock it holds, or returns
CallerRuns ==
    \E c \in Callers :
        \/ get_data_touch_locked(c)
        \/ status_locked(c)
        \/ get_data_read_locked_cache(c)
        \/ api_return(c)

LockEnvStep ==
    \/ start_background_worker
    \/ stop_background_worker
    \/ join_worker
    \/ cleanup
    \/ \E c \in Callers, r \in ReadInputs : get_data_enter(c, r[1], r[2])
    \/ \E c \in Callers : status_enter(c)
    \/ \E w \in WriteInputs : send_data(w[1], w[2])

NextLocks ==
    (LockWorkerRuns \/ LockWorkerFaults \/ CallerAcquires \/ CallerRuns \/ LockEnvStep)
        /\ nenv' <= MaxLiveEnv

\* the scheduler runs every thread that can take a step; a handler that waits
\* for a lock gets it when the lock is free again and again (the worker sleeps
\* between two uses of a lock)
SpecLocks ==
    /\ Init /\ [][NextLocks]_vars
    /\ WF_vars(LockWorkerRuns) /\ WF_vars(CallerRuns) /\ SF_vars(CallerAcquires)

-----------------------------------------------------------------------------
(* Steps of the worker named by the properties below *)

\* the worker enters send_modbus_request_raw for a polling read
ReadBegins == wpc = "txn_begin" /\ wpc' # "txn_begin" /\ call.op = "READ"

\* the worker handles the result of a successful polling read
PutStep ==
    /\ wpc = "txn_ret" /\ wpc' # "txn_ret"
    /\ call.op = "READ" /\ result.status = "success"

\* the worker's call of get_polling_range returns
QueryStep == wpc = "poll_range" /\ wpc' # "poll_range"

\* a write transaction was begun for the task with this id
Logged(id) == \E j \in 1..Len(writeLog) : writeLog[j].id = id

\* the entries of the tracker that have not outlived the idle timeout
Live == {k \in DOMAIN active_ranges : now - active_ranges[k] <= RANGE_TIMEOUT}

\* a get_data handler calls update_active_range
TouchStep == \E c \in Callers : cpc[c] = "idle" /\ cpc'[c] = "get_data"

-----------------------------------------------------------------------------
\* C1: in every reachable state at most one transaction is in flight on the
\* serial link, and it is the worker's, made under client.lock; no API caller
\* is ever inside send_modbus_request_raw.
C1_OneTransaction ==
    /\ Cardinality(inflight) <= 1
    /\ inflight \subseteq {"worker"}
    /\ inflight # {} => lock = "worker" /\ wpc \in {"txn_write", "txn_read"}

\* a transaction is in flight while an API caller is in the middle of get_data
C1_Witness == inflight = {"worker"} /\ \E c \in Callers : cpc[c] = "get_data"

\* C2 (as claimed): every write task is transacted before any polling read the
\* worker starts after the task was enqueued, i.e. no polling read transaction
\* starts while a write task waits in the queue.
C2_StrictPriority == [][ReadBegins => task_queue = <<>>]_vars

\* C2 (amended): every write task enqueued before the dequeue attempt that found
\* the queue empty has had its transaction before any polling read of the pass
\* that follows; tasks enqueued during a pass wait until the pass has issued all
\* its chunks.
C2_PriorityPerIteration == [][ReadBegins => \A i \in 1..passMark : Logged(i)]_vars

\* a later chunk of a pass is read after a write was transacted and while
\* another write, enqueued during the pass, waits
C2_Witness ==
    /\ wpc = "txn_read" /\ call.op = "READ" /\ call.address > 0
    /\ passMark >= 1 /\ Len(enqueued) > passMark /\ task_queue # <<>>

\* C3: write transactions are begun in the order in which their tasks were
\* enqueued (ids are given in enqueue order), whatever their outcomes.
C3_WriteFIFO ==
    \A i, j \in 1..Len(writeLog) : i < j => writeLog[i].id < writeLog[j].id

\* the second of two writes is transacted after the first one failed
C3_Witness ==
    /\ Len(writeLog) = 2 /\ wpc = "txn_write" /\ call.id = 2
    /\ \E i \in 1..Len(error_logs) : error_logs[i] = "Write failed"

\* C4: a get_data with quantity in 1..1000 records the entry
\* (address, address+quantity-1) with the current time and nothing else, then
\* returns exactly quantity values, the i-th being the cached value of address+i
\* (0 when absent); it starts no transaction and leaves the cache, the write
\* queue and client.status alone.
C4_ReadContract ==
    [][\A c \in Callers :
        /\ (cpc[c] = "idle" /\ cpc'[c] = "get_data") =>
            LET a == creq'[c][1]
                q == creq'[c][2]
            IN /\ q >= 1 /\ q <= MAX_QUANTITY
               /\ DOMAIN active_ranges' = DOMAIN active_ranges \cup {<<a, a + q - 1>>}
               /\ active_ranges'[<<a, a + q - 1>>] = now
               /\ \A k \in DOMAIN active_ranges :
                     k # <<a, a + q - 1>> => active_ranges'[k] = active_ranges[k]
               /\ UNCHANGED <<register_cache, task_queue, status, port, lock,
                              inflight, wpc, writeLog, polled>>
        /\ (cpc[c] = "get_data" /\ cpc'[c] = "reply") =>
            LET a == creq[c][1]
                q == creq[c][2]
            IN /\ resp'[c].code = 200
               /\ Len(resp'[c].registers) = q
               /\ \A i \in 0..(q - 1) :
                     resp'[c].registers[i + 1] =
                        IF a + i \in DOMAIN register_cache
                        THEN register_cache[a + i] ELSE 0
               /\ UNCHANGED <<register_cache, task_queue, status, port, lock,
                              inflight, wpc, writeLog, polled, active_ranges>>
      ]_vars

\* a get_data is about to return a cached value next to a default 0
C4_Witness ==
    \E c \in Callers :
        /\ cpc[c] = "reply" /\ resp[c].code = 200
        /\ \E i, j \in 1..Len(resp[c].registers) :
              resp[c].registers[i] # 0 /\ resp[c].registers[j] = 0

\* C5: the register cache changes only in the worker step that handles the
\* result of a successful read transaction; enqueueing a write and transacting
\* it, successfully or not, leave the cache as it was.
C5_CacheOnlyByPoll ==
    [][register_cache' # register_cache => PutStep]_vars

\* a write to address 0 succeeded, nothing was polled, and get_data(0, 2)
\* answers the default values
C5_Witness ==
    /\ Len(writeLog) = 1 /\ writeLog[1].address = 0 /\ wpc = "loop"
    /\ status = "online" /\ error_logs = <<>> /\ polled = {}
    /\ \E c \in Callers : cpc[c] = "reply" /\ resp[c] = [code |-> 200, registers |-> <<0, 0>>]

\* C6 (as claimed): an address that was never inside a read request of the
\* worker has no cache entry, whatever the slave answered.
C6_NeverPolledAbsent == DOMAIN register_cache \subseteq polled

\* C7: after update_cache(start, values) a get_cached_registers over any
\* sub-range of [start, start+len(values)) returns the matching slice of values,
\* and every address outside that range keeps the entry (or the absence) it had.
C7_PutGetSlice ==
    [][LET start == current_addr'
           values == result'.registers
           n == Len(values)
       IN /\ \A s \in start..(start + n - 1) : \A q \in 1..(start + n - s) :
                get_cached_registers(register_cache', s, q)
                   = SubSeq(values, s - start + 1, s - start + q)
          /\ \A a \in DOMAIN register_cache \cup DOMAIN register_cache' :
                (a < start \/ a >= start + n) =>
                   /\ a \in DOMAIN register_cache
                   /\ a \in DOMAIN register_cache'
                   /\ register_cache'[a] = register_cache[a]
      ]_vars

\* a put has overwritten part of the cache and left older entries in place
C7_Witness ==
    /\ current_addr = 1 /\ result.registers = <<65535, 65535>>
    /\ {0, 3} \subseteq DOMAIN register_cache
    /\ get_cached_registers(register_cache, 0, 4) = <<1, 65535, 65535, 1>>

\* C8: get_polling_range answers None when no entry is younger than the idle
\* timeout, and otherwise the one range from the least start to the greatest
\* end of the entries that are, disjoint or not.
C8_Window ==
    [][QueryStep =>
        IF Live = {}
        THEN wpc' = "loop"
        ELSE /\ wpc' = "txn_begin"
             /\ \A k \in Live : current_addr' <= k[1] /\ k[2] <= current_addr' + remaining' - 1
             /\ \E k \in Live : current_addr' = k[1]
             /\ \E k \in Live : current_addr' + remaining' - 1 = k[2]
      ]_vars

\* the entries (0,1) and (100,101) gave the window (0,101)
C8_Witness ==
    /\ wpc = "txn_begin" /\ call.op = "READ"
    /\ DOMAIN active_ranges = {<<0, 1>>, <<100, 101>>}
    /\ current_addr = 0 /\ remaining = 102

\* C9: an entry is removed only by a query made more than RANGE_TIMEOUT after
\* its own last touch and by the first such query, the worker's or the status
\* handler's; until then it is kept with its time and lies inside the window; a
\* touch sets the time of its own entry only and adds no second entry for the
\* same range.
C9_Expiry ==
    [][/\ \A k \in DOMAIN active_ranges \ DOMAIN active_ranges' :
             now - active_ranges[k] > RANGE_TIMEOUT
       /\ (QueryStep \/ (active_ranges' # active_ranges /\ ~TouchStep)) =>
             /\ DOMAIN active_ranges' = Live
             /\ \A k \in Live : active_ranges'[k] = active_ranges[k]
       /\ QueryStep =>
             \A k \in Live :
                /\ current_addr' <= k[1]
                /\ k[2] <= current_addr' + remaining' - 1
       /\ \A c \in Callers : (cpc[c] = "idle" /\ cpc'[c] = "get_data") =>
             LET key == <<creq'[c][1], creq'[c][1] + creq'[c][2] - 1>>
             IN /\ active_ranges'[key] = now
                /\ Cardinality(DOMAIN active_ranges') =
                      Cardinality(DOMAIN active_ranges \cup {key})
                /\ \A k \in DOMAIN active_ranges \ {key} :
                      k \in DOMAIN active_ranges' /\ active_ranges'[k] = active_ranges[k]
      ]_vars

\* at time 11 a query evicted the entry touched at 0 and kept the one touched at 10
C9_Witness ==
    /\ wpc = "txn_begin" /\ call.op = "READ" /\ now = RANGE_TIMEOUT + 1
    /\ DOMAIN active_ranges = {<<100, 101>>}
    /\ active_ranges[<<100, 101>>] = RANGE_TIMEOUT
    /\ 0 \in polled

\* C10: every enqueued write task is in exactly one place: waiting in the queue,
\* held by the worker for its transaction, or transacted; it is transacted at
\* most once, with the address and value given at enqueue, and a failed write
\* never returns to the queue.
InQueue(id) == \E j \in 1..Len(task_queue) : task_queue[j].id = id
Held(id) == wpc = "txn_begin" /\ call.op = "WRITE" /\ call.id = id

C10_ExactlyOnce ==
    /\ \A i, j \in 1..Len(writeLog) : writeLog[i].id = writeLog[j].id => i = j
    /\ \A i \in 1..Len(writeLog) :
          /\ writeLog[i].id \in 1..Len(enqueued)
          /\ writeLog[i] = enqueued[writeLog[i].id]
    /\ \A i, j \in 1..Len(task_queue) : task_queue[i].id = task_queue[j].id => i = j
    /\ \A id \in 1..Len(enqueued) :
          /\ InQueue(id) \/ Held(id) \/ Logged(id)
          /\ ~(InQueue(id) /\ Held(id))
          /\ ~(InQueue(id) /\ Logged(id))
          /\ ~(Held(id) /\ Logged(id))

\* a write failed, was dropped, and the worker is back at the top of its loop
C10_Witness ==
    /\ wpc = "loop" /\ running /\ task_queue = <<>> /\ Len(writeLog) = 1
    /\ \E i \in 1..Len(error_logs) : error_logs[i] = "Write failed"

-----------------------------------------------------------------------------
(* Progress of the worker *)

\* addresses the progress properties are stated for: the first and the last
\* address of the window 0..101 and the two sides of its first chunk border
Probes == {0, MAX_READ_QUANTITY - 1, MAX_READ_QUANTITY, 101}

\* the window get_polling_range would answer now
WindowNow == get_polling_range([k \in Live |-> active_ranges[k]])
InWindow(a) == WindowNow # NoRange /\ a >= WindowNow[1] /\ a <= WindowNow[2]

\* a polling pass is under way and has not yet asked for address a
InPass(a) ==
    /\ call.op = "READ"
    /\ a >= current_addr /\ a < current_addr + remaining

\* the worker is inside send_modbus_request_raw for a read that contains a
ReadUnderWay(a) ==
    /\ call.op = "READ" /\ wpc \in {"txn_write", "txn_read", "txn_ret"}
    /\ a >= call.address /\ a < call.address + call.arg

\* C11 (as claimed): while the worker runs and address a lies in the window of
\* the non-expired entries, a read transaction for a eventually starts, also
\* when callers keep submitting writes.
C11_ProgressUnderWrites ==
    \A a \in Probes :
        (running /\ wpc \notin {"unborn", "stopped"} /\ InWindow(a))
            ~> (~running \/ ~InWindow(a) \/ ReadUnderWay(a))

\* C11 (amended): once a polling pass has begun, every address of its window
\* that is still to be read eventually is the subject of a read transaction,
\* also when callers keep submitting writes; no pass begins while the dequeue
\* step keeps finding a write task.
C11_PassProgress == \A a \in Probes : InPass(a) ~> ReadUnderWay(a)

\* the last chunk of the window 0..101 is read while a write of the callers
\* that never stop waits in the queue
C11_Witness ==
    /\ wpc = "txn_read" /\ call.op = "READ" /\ call.address = 2 * MAX_READ_QUANTITY
    /\ task_queue # <<>> /\ Head(task_queue).id = 0

\* C12: once stop has set client.running to false the worker eventually ends,
\* wherever it was (waiting for a task, in a write, in the middle of a pass of
\* several chunks, idle); the flag is read at the top of every iteration, no
\* iteration starts once it is read false, and an ended worker stays ended.
C12_Cancellation ==
    /\ (mpc # "init" /\ ~running) ~> (wpc = "stopped")
    /\ [][(wpc = "loop" /\ ~running) => wpc' \in {"loop", "stopped"}]_vars
    /\ [][wpc = "stopped" => wpc' = "stopped"]_vars

\* stop came while the worker was reading the second chunk of the window 0..101
C12_Witness ==
    /\ ~running /\ mpc = "joining"
    /\ wpc = "txn_read" /\ call.op = "READ" /\ call.address = MAX_READ_QUANTITY

\* the worker has begun a write transaction or come back from one
WriteUnderWay == call.op = "WRITE" /\ wpc \in {"txn_write", "txn_read", "txn_ret"}

\* C13: the worker leaves its loop only when client.running is false; after a
\* failed transaction of any kind it comes back to the dequeue step, and a write
\* that waits while a read fails is still transacted.
C13_FailuresNotFatal ==
    /\ [][(wpc # "stopped" /\ wpc' = "stopped") => (wpc = "loop" /\ ~running)]_vars
    /\ (wpc = "txn_ret" /\ result.status = "error") ~> (wpc = "loop")
    /\ (wpc = "txn_ret" /\ result.status = "error" /\ call.op = "READ"
           /\ task_queue # <<>>)
         ~> (~running \/ WriteUnderWay)

\* after a failure was logged the worker is back from a successful transaction
C13_Witness ==
    /\ running /\ wpc = "txn_ret" /\ result.status = "success"
    /\ \E i \in 1..Len(error_logs) :
          error_logs[i] \in {"Serial exception", "Unexpected error",
                             "Modbus error response", "Failed to open port"}

\* C14: the error log never holds more than MAX_ERROR_LOGS entries; a step
\* that changes it appends one entry at the end, dropping exactly the oldest one
\* when the log was full and keeping the others in their order; and while every
\* transaction fails, client.status reads mb-offline after each of them.
C14_BoundedLog ==
    /\ [](Len(error_logs) <= MAX_ERROR_LOGS)
    /\ [][error_logs' # error_logs =>
            /\ error_logs' # <<>>
            /\ SubSeq(error_logs', 1, Len(error_logs') - 1) =
                  IF Len(error_logs) = MAX_ERROR_LOGS
                  THEN Tail(error_logs) ELSE error_logs]_vars
    /\ [](wpc = "txn_ret" => status = "mb-offline")

\* the log is full and its first entries have been dropped
C14_Witness ==
    /\ Len(error_logs) = MAX_ERROR_LOGS
    /\ error_logs[1] # "Failed to open port"
    /\ status = "mb-offline"

\* C15: no API caller ever holds client.lock; whatever the worker is doing, in
\* a transaction or not, a get_data, a send_data and a status request can start
\* while the server runs and a started get_data can go on to its reply; a step
\* that enqueues a write moves neither the worker nor the lock.
C15_CallersNeverWait ==
    /\ lock \in {"free", "worker"}
    /\ (mpc = "serving" /\ nenv < MaxEnv) =>
          /\ ENABLED (\E w \in WriteInputs : send_data(w[1], w[2]))
          /\ ENABLED status_request
          /\ \A c \in Callers : cpc[c] = "idle" =>
                ENABLED (\E r \in ReadInputs : get_data_touch(c, r[1], r[2]))
    /\ \A c \in Callers :
          /\ cpc[c] = "get_data" => ENABLED get_data_read(c)
          /\ cpc[c] = "reply" => ENABLED api_return(c)

\* a get_data got its values and a write was queued while the worker is inside
\* a write transaction
C15_Witness ==
    /\ inflight = {"worker"} /\ lock = "worker" /\ call.op = "WRITE"
    /\ task_queue # <<>>
    /\ \E c \in Callers : cpc[c] = "reply" /\ resp[c].code = 200

\* C16 (as claimed): every task in the write queue has its address and its
\* value in 0..65535.
C16_TasksInRange ==
    \A i \in 1..Len(task_queue) :
        /\ task_queue[i].address >= 0 /\ task_queue[i].address <= 65535
        /\ task_queue[i].value >= 0 /\ task_queue[i].value <= MAX_VALUE

\* C17: a pass over the window (s, e) starts with the request at s; every
\* request of the pass asks for min(what is left, MAX_READ_QUANTITY) registers
\* from the address where the one before ended; the pass ends with the request
\* that reaches e; a failed request is logged and is followed by the next one
\* like a successful request.
C17_ChunksPartition ==
    /\ [](call.op = "READ" =>
             /\ call.address = current_addr
             /\ call.arg = Min(remaining, MAX_READ_QUANTITY)
             /\ call.arg >= 1 /\ call.arg <= MAX_READ_QUANTITY)
    /\ [][QueryStep /\ wpc' = "txn_begin" =>
             /\ WindowNow # NoRange
             /\ call'.op = "READ"
             /\ current_addr' = WindowNow[1]
             /\ current_addr' + remaining' - 1 = WindowNow[2]]_vars
    /\ [][(wpc = "txn_ret" /\ wpc' # "txn_ret" /\ call.op = "READ") =>
             /\ result.status # "success" =>
                   /\ error_logs' # <<>>
                   /\ error_logs'[Len(error_logs')] = "Polling failed"
             /\ IF call.arg < remaining
                THEN /\ wpc' = "txn_begin" /\ call'.op = "READ"
                     /\ call'.address = call.address + call.arg
                     /\ current_addr' + remaining' = current_addr + remaining
                ELSE /\ wpc' = "loop" /\ call'.op = "NONE"]_vars
    /\ [][(call.op = "READ" /\ ~(wpc = "txn_ret" /\ wpc' # "txn_ret")) =>
             UNCHANGED <<call, current_addr, remaining>>]_vars

\* the last chunk of the window 0..101 is asked for after a chunk failed
C17_Witness ==
    /\ wpc = "txn_begin" /\ call.op = "READ"
    /\ call.address = 2 * MAX_READ_QUANTITY /\ call.arg = 8
    /\ error_logs # <<>> /\ error_logs[Len(error_logs)] = "Polling failed"

\* the worker's call of send_modbus_request_raw returns
TxnReturns == wpc \in {"txn_begin", "txn_write", "txn_read"} /\ wpc' = "txn_ret"

\* C18: client.status is offline until the worker's first call of
\* send_modbus_request_raw; when a call has returned it is online if the
\* result is a success and mb-offline if it is an error of any kind; only a
\* step inside send_modbus_request_raw changes it.
C18_StatusFollowsLast ==
    /\ []((writeLog = <<>> /\ polled = {}) => status = "offline")
    /\ [](wpc = "txn_ret" =>
             status = IF result.status = "success" THEN "online" ELSE "mb-offline")
    /\ [][status' # status => wpc \in {"txn_begin", "txn_write", "txn_read"}]_vars
    /\ [][status' # status => status' \in {"online", "mb-offline"}]_vars

\* an exception response turned the status of a link that was online to
\* mb-offline
C18_Witness ==
    /\ wpc = "txn_ret" /\ result = ErrorResult("None") /\ status = "mb-offline"
    /\ port = "open" /\ register_cache # EmptyMap

\* C19: a call that ends with a serial exception leaves the port closed; a call
\* that ends with any other failure leaves the port as it was, and that is open
\* after a short response, an exception response or a frame that cannot be
\* decoded; either way the call returns an error after its one attempt, with one
\* entry more in the error log.
C19_PortAfterFailure ==
    [][(wpc \in {"txn_write", "txn_read"} /\ wpc' = "txn_ret"
          /\ result'.status = "error") =>
          /\ result'.message = "Serial exception" => port' # "open"
          /\ result'.message # "Serial exception" => port' = port
          /\ result'.message \in {"Response too short", "None"} => port' = "open"
          /\ (wpc = "txn_read" /\ result'.message = "Unexpected error") => port' = "open"
          /\ Len(error_logs') = Len(error_logs) + 1
          /\ UNCHANGED <<call, writeLog, polled, task_queue, register_cache>>]_vars

\* a serial exception closed a port that an earlier exception response had left
\* open
C19_Witness ==
    /\ wpc = "txn_ret" /\ result.message = "Serial exception" /\ port = "closed"
    /\ Len(error_logs) >= 3 /\ error_logs[1] = "Modbus error response"

\* C20: the request frame is written only to an open port; a call that finds
\* the port not open either opens it and goes on to the write, or fails with
\* the port as it was, status mb-offline and one entry "Failed to open port";
\* at every call, whatever failed before, the open can be tried and can succeed.
C20_ReconnectOnDemand ==
    /\ [][(wpc = "txn_write" /\ wpc' = "txn_read") => port = "open"]_vars
    /\ [][(wpc = "txn_begin" /\ wpc' # "txn_begin" /\ port # "open") =>
             \/ port' = "open" /\ wpc' = "txn_write"
             \/ /\ port' = port /\ wpc' = "txn_ret"
                /\ status' = "mb-offline" /\ result'.status = "error"
                /\ error_logs' = add_error_log(error_logs, "Failed to open port")]_vars
    /\ []((wpc = "txn_begin" /\ port # "open") => ENABLED TxnBeginOpen)
    /\ []((wpc = "txn_begin" /\ port = "open") => ENABLED TxnBeginConnected)

\* the open failed for one call and succeeded for the very next one
C20_Witness ==
    /\ wpc = "txn_write" /\ port = "open" /\ status = "online"
    /\ Len(error_logs) = 2 /\ error_logs[1] = "Failed to open port"

\* C21 (as claimed): when the worker has handled a successful read of the chunk
\* [a, a+q-1], the cache holds the value of the response for each of the q
\* addresses of the chunk, and no address outside the chunk has a new or changed
\* entry.
C21_ChunkExactlyCached ==
    [][PutStep =>
        LET a == call.address
            q == call.arg
        IN /\ Len(result.registers) = q
           /\ \A x \in a..(a + q - 1) :
                 /\ x \in DOMAIN register_cache'
                 /\ register_cache'[x] = result.registers[x - a + 1]
           /\ \A x \in DOMAIN register_cache' \ (a..(a + q - 1)) :
                 /\ x \in DOMAIN register_cache
                 /\ register_cache'[x] = register_cache[x]
      ]_vars

\* a step of the background_worker thread
WorkerMoves == wpc # "unborn" /\ wpc' # wpc

\* C22 (as claimed): no step of the worker changes active_ranges, and only
\* steps of the worker change register_cache and client.status.
C22_Ownership ==
    [][/\ WorkerMoves => active_ranges' = active_ranges
       /\ (register_cache' # register_cache \/ status' # status) => WorkerMoves
      ]_vars

\* C22 (amended): an entry of active_ranges is created or refreshed only by a
\* get_data; a step of the worker (its call of get_polling_range) only removes
\* entries, and only expired ones, leaving the others with their times; only
\* steps of the worker change register_cache and client.status.
C22_OwnershipWithEviction ==
    [][/\ WorkerMoves =>
             IF QueryStep
             THEN /\ DOMAIN active_ranges' =
                       DOMAIN active_ranges \ ExpiredKeys(active_ranges, now)
                  /\ \A k \in DOMAIN active_ranges' : active_ranges'[k] = active_ranges[k]
             ELSE active_ranges' = active_ranges
       /\ (\E k \in DOMAIN active_ranges' :
               k \notin DOMAIN active_ranges \/ active_ranges'[k] # active_ranges[k])
             => TouchStep
       /\ (register_cache' # register_cache \/ status' # status) => WorkerMoves
      ]_vars

\* the worker's query at time 11 removed the only entry, touched at time 0; the
\* two inputs so far are the get_data and the tick of the clock
C22_Witness ==
    /\ wpc = "loop" /\ active_ranges = EmptyMap /\ now = RANGE_TIMEOUT + 1
    /\ polled # {} /\ nenv = 2 /\ mpc = "serving"

\* C23 (as claimed): when cleanup has closed the port the worker has ended: no
\* transaction is in flight at the close or begins after it, and the port is not
\* opened again.
C23_NoShutdownRace ==
    mpc = "done" => (wpc = "stopped" /\ inflight = {} /\ port # "open")

\* the holders of client.lock, client.cache_lock and client.ranges_lock
LockHolders == <<lock, cache_lock, ranges_lock>>
HeldBy(t) == {i \in 1..3 : LockHolders[i] = t}

\* C24: no thread ever holds two of the three locks; every lock that is held is
\* released again, also when the transaction fails; and a thread that has come
\* to a point where it needs a lock gets past it.
C24_DeadlockFree ==
    /\ [](\A t \in {"worker"} \cup Callers : Cardinality(HeldBy(t)) <= 1)
    /\ (lock # "free") ~> (lock = "free")
    /\ (cache_lock # "free") ~> (cache_lock = "free")
    /\ (ranges_lock # "free") ~> (ranges_lock = "free")
    /\ (wpc \in {"poll_range", "txn_begin", "txn_ret"}) ~> (wpc \in {"loop", "stopped"})
    /\ \A c \in Callers :
          (cpc[c] \in {"touch", "status", "get_data"}) ~> (cpc[c] \in {"idle", "reply"})

\* the worker is at its call of get_polling_range while a handler holds
\* ranges_lock, after a transaction of the worker has failed
C24_Witness ==
    /\ wpc = "poll_range" /\ ranges_lock \in Callers /\ lock = "free"
    /\ error_logs # <<>>

====
